---- MODULE Spec2Model ----
(***************************************************************************)
(* A model of the Twitch chat bridge: the IRC message parser              *)
(* (src/src/ircMessage.js), the event bus (PublishSubscribeTemplate) and   *)
(* the background session manager (WorkerInterfacer, src/worker.js) with   *)
(* the browser objects it drives: runtime ports, WebSockets, the local     *)
(* storage and the OAuth web flow, and the content client at the other end *)
(* of a port (ContentInterface, src/src/content.js).                       *)
(*                                                                         *)
(* JavaScript strings are sequences of one-character strings, so that      *)
(* parsing is computed character by character as the code does.            *)
(***************************************************************************)
EXTENDS Integers, Sequences, FiniteSets, TLC

(***************************************************************************)
(* Bounds of the model.                                                    *)
(***************************************************************************)
MaxSockets == 2
MaxPorts == 2
MaxChat == 1
MaxCfin == 1

(***************************************************************************)
(* JavaScript values.                                                      *)
(***************************************************************************)
\* undefined, as a value no character sequence equals
UNDEF == <<"undefined">>
\* null for the socket and chromePort fields (sockets and ports are 1, 2, ...)
NULL == 0

(***************************************************************************)
(* String primitives (0-based indices as in JavaScript).                   *)
(***************************************************************************)
Min(a, b) == IF a < b THEN a ELSE b

\* str.slice(from, to) for 0 <= from
Slice(str, from, to) == SubSeq(str, from + 1, Min(to, Len(str)))

\* str.slice(from)
SliceFrom(str, from) == SubSeq(str, from + 1, Len(str))

\* str[i] === c
CharIs(str, i, c) == i >= 0 /\ i < Len(str) /\ str[i + 1] = c

\* str.indexOf(c, from) for a one-character c
IndexOf(str, c, from) ==
    LET hits == {i \in from..(Len(str) - 1) : str[i + 1] = c}
    IN  IF hits = {} THEN -1 ELSE CHOOSE i \in hits : \A j \in hits : i <= j

\* str.includes(c)
Includes(str, c) == IndexOf(str, c, 0) # -1

\* str.split(c) for a one-character separator c
RECURSIVE Split(_, _)
Split(str, c) ==
    LET i == IndexOf(str, c, 0)
    IN  IF i = -1 THEN <<str>>
        ELSE <<Slice(str, 0, i)>> \o Split(SliceFrom(str, i + 1), c)

\* the characters String.prototype.trim removes that occur in socket data
IsSpace(ch) == ch \in {" ", "\r", "\n", "\t"}

\* str.trim()
RECURSIVE TrimLeft(_)
TrimLeft(str) ==
    IF str # <<>> /\ IsSpace(Head(str)) THEN TrimLeft(Tail(str)) ELSE str

RECURSIVE TrimRight(_)
TrimRight(str) ==
    IF str # <<>> /\ IsSpace(str[Len(str)])
    THEN TrimRight(SubSeq(str, 1, Len(str) - 1)) ELSE str

Trim(str) == TrimRight(TrimLeft(str))

\* str.split('\r\n')
RECURSIVE SplitCRLF(_)
SplitCRLF(str) ==
    LET hits == {i \in 0..(Len(str) - 2) : str[i + 1] = "\r" /\ str[i + 2] = "\n"}
    IN  IF hits = {} THEN <<str>>
        ELSE LET i == CHOOSE k \in hits : \A j \in hits : k <= j
             IN  <<Slice(str, 0, i)>> \o SplitCRLF(SliceFrom(str, i + 2))

(***************************************************************************)
(* IRCMessage (src/src/ircMessage.js).                                     *)
(***************************************************************************)
\* the replacement of one escape sequence, backslash followed by ch
esc2unesc(ch) ==
    CASE ch = ":" -> ";"
      [] ch = "s" -> " "
      [] ch = "\\" -> "\\"
      [] ch = "r" -> "\r"
      [] ch = "n" -> "\n"

\* an unescape that also drops the backslash of the other sequences
RECURSIVE _unescapeIRC_DropBackslash(_)
_unescapeIRC_DropBackslash(str) ==
    IF str = <<>> THEN <<>>
    ELSE IF Len(str) >= 2 /\ str[1] = "\\"
         THEN <<IF str[2] \in {"s", "n", "r", ":", "\\"}
                THEN esc2unesc(str[2]) ELSE str[2]>>
                  \o _unescapeIRC_DropBackslash(SliceFrom(str, 2))
         ELSE <<str[1]>> \o _unescapeIRC_DropBackslash(Tail(str))

\* str.replace(/\\[snr\:\\]/g, match => esc2unesc[match])
RECURSIVE _unescapeIRC(_)
_unescapeIRC(str) ==
    IF str = <<>> THEN <<>>
    ELSE IF Len(str) >= 2 /\ str[1] = "\\" /\ str[2] \in {"s", "n", "r", ":", "\\"}
         THEN <<esc2unesc(str[2])>> \o _unescapeIRC(SliceFrom(str, 2))
         ELSE <<str[1]>> \o _unescapeIRC(Tail(str))

_parseTag(rawKey, rawValue) ==
    [unescapedKey |-> _unescapeIRC(rawKey), unescapedValue |-> _unescapeIRC(rawValue)]

\* obj[key] = value on an object held as a function
SetKey(obj, key, value) ==
    [k \in DOMAIN obj \cup {key} |-> IF k = key THEN value ELSE obj[k]]

\* an object with no own property
EmptyObject == [k \in {} |-> UNDEF]

\* new IRCMessage()
NewIRCMessage ==
    [command |-> <<>>, prefix |-> EmptyObject, tags |-> EmptyObject,
     rawTags |-> EmptyObject, params |-> <<>>]

\* index of the next space at or after offset, message.length when there is none
getNextSpace(message, offset) ==
    LET index == IndexOf(message, " ", offset)
    IN  IF index = -1 THEN Len(message) ELSE index

\* a forEach that keeps the raw value in tags
RECURSIVE parseTags_RawValue(_, _, _)
parseTags_RawValue(tagStrs, i, m) ==
    IF i > Len(tagStrs) THEN m
    ELSE LET pieces == Split(tagStrs[i], "=")
             rawKey == pieces[1]
             rawValue == IF Len(pieces) >= 2 THEN pieces[2] ELSE <<>>
             t == _parseTag(rawKey, rawValue)
         IN  parseTags_RawValue(tagStrs, i + 1,
                 [m EXCEPT !.rawTags = SetKey(@, rawKey, rawValue),
                           !.tags = SetKey(@, t.unescapedKey, rawValue)])

\* the forEach over tagsRaw.split(';'), from tag i on
RECURSIVE parseTags(_, _, _)
parseTags(tagStrs, i, m) ==
    IF i > Len(tagStrs) THEN m
    ELSE LET pieces == Split(tagStrs[i], "=")
             rawKey == pieces[1]
             rawValue == IF Len(pieces) >= 2 THEN pieces[2] ELSE <<>>
             t == _parseTag(rawKey, rawValue)
         IN  parseTags(tagStrs, i + 1,
                 [m EXCEPT !.rawTags = SetKey(@, rawKey, rawValue),
                           !.tags = SetKey(@, t.unescapedKey, t.unescapedValue)])

\* a prefix whose token without '!' is always the host
parsePrefix_HostOnly(prefixRaw) ==
    LET byBang == Split(prefixRaw, "!")
        nuh ==
            IF Includes(prefixRaw, "!")
            THEN LET userHost == byBang[2]
                     uh == Split(userHost, "@")
                 IN  IF Includes(userHost, "@")
                     THEN <<byBang[1], uh[1], uh[2]>>
                     ELSE <<byBang[1], userHost, UNDEF>>
            ELSE <<UNDEF, UNDEF, prefixRaw>>
    IN  [f \in {"nickname", "user", "host"} |->
            CASE f = "nickname" -> nuh[1]
              [] f = "user" -> nuh[2]
              [] f = "host" -> nuh[3]]

\* the prefix object built from the text between ':' and the next space
parsePrefix(prefixRaw) ==
    LET byBang == Split(prefixRaw, "!")
        byAt == Split(prefixRaw, "@")
        nuh ==
            IF Includes(prefixRaw, "!")
            THEN LET userHost == byBang[2]
                     uh == Split(userHost, "@")
                 IN  IF Includes(userHost, "@")
                     THEN <<byBang[1], uh[1], uh[2]>>
                     ELSE <<byBang[1], userHost, UNDEF>>
            ELSE IF Includes(prefixRaw, "@")
                 THEN <<UNDEF, byAt[1], byAt[2]>>
                 ELSE <<UNDEF, UNDEF, prefixRaw>>
    IN  [f \in {"nickname", "user", "host"} |->
            CASE f = "nickname" -> nuh[1]
              [] f = "user" -> nuh[2]
              [] f = "host" -> nuh[3]]

\* a loop that splits at every space, a leading ':' included
RECURSIVE parseParams_SplitAll(_, _, _)
parseParams_SplitAll(message, offset, params) ==
    IF offset >= Len(message) THEN params
    ELSE LET nextSpace == getNextSpace(message, offset)
         IN  parseParams_SplitAll(message, nextSpace + 1,
                 Append(params, Slice(message, offset, nextSpace)))

\* the while loop over the parameters
RECURSIVE parseParams(_, _, _)
parseParams(message, offset, params) ==
    IF offset >= Len(message) THEN params
    ELSE IF CharIs(message, offset, ":")
         THEN Append(params, SliceFrom(message, offset + 1))
         ELSE LET nextSpace == getNextSpace(message, offset)
              IN  parseParams(message, nextSpace + 1,
                      Append(params, Slice(message, offset, nextSpace)))

\* IRCMessage.parse(message)
parse(message) ==
    LET hasTags == CharIs(message, 0, "@")
        tagsEnd == getNextSpace(message, 0)
        m1 == IF hasTags
              THEN parseTags(Split(Slice(message, 1, tagsEnd), ";"), 1, NewIRCMessage)
              ELSE NewIRCMessage
        off1 == IF hasTags THEN tagsEnd + 1 ELSE 0
        hasPrefix == CharIs(message, off1, ":")
        prefixEnd == getNextSpace(message, off1)
        m2 == IF hasPrefix
              THEN [m1 EXCEPT !.prefix = parsePrefix(Slice(message, off1 + 1, prefixEnd))]
              ELSE m1
        off2 == IF hasPrefix THEN prefixEnd + 1 ELSE off1
        commandEnd == getNextSpace(message, off2)
        m3 == [m2 EXCEPT !.command = Slice(message, off2, commandEnd)]
    IN  [m3 EXCEPT !.params = parseParams(message, commandEnd + 1, <<>>)]

\* message.toJSON()
toJSON(m) ==
    [command |-> m.command, prefix |-> m.prefix, tags |-> m.tags,
     rawTags |-> m.rawTags, params |-> m.params]

\* what the JSON serialization of a port message keeps of an object:
\* the properties whose value is not undefined
DropUndefined(obj) == [k \in {x \in DOMAIN obj : obj[x] # UNDEF} |-> obj[k]]

\* the TIRC payload as the other end of the port receives it
SerializeIRC(json) == [json EXCEPT !.prefix = DropUndefined(@)]

\* IRCMessage.fromJSON(json)
fromJSON(json) ==
    [command |-> json.command, prefix |-> json.prefix, tags |-> json.tags,
     rawTags |-> json.rawTags, params |-> json.params]

(***************************************************************************)
(* Strings of the two protocols.                                           *)
(***************************************************************************)
CSYN == <<"C", "S", "Y", "N">>
CACK == <<"C", "A", "C", "K">>
CFIN == <<"C", "F", "I", "N">>
TCON == <<"T", "C", "O", "N">>
TIRC == <<"T", "I", "R", "C">>
TFIN == <<"T", "F", "I", "N">>
TERR == <<"T", "E", "R", "R">>
GLOBALUSERSTATE ==
    <<"G", "L", "O", "B", "A", "L", "U", "S", "E", "R", "S", "T", "A", "T", "E">>
PRIVMSG == <<"P", "R", "I", "V", "M", "S", "G">>
PING == <<"P", "I", "N", "G">>
NOTICE == <<"N", "O", "T", "I", "C", "E">>
MsgId == <<"m", "s", "g", "-", "i", "d">>

\* a command outside the control protocol
XCMD == <<"X", "C", "M", "D">>

\* the channels a peer asks for
Channels == {<<"a", "b", "c">>, <<"x", "y">>}

\* a control message without payload: the serialization drops an undefined payload
NoPayload == EmptyObject

\* the lines the manager writes upstream
CapReqLine == <<"CAP REQ :twitch.tv/tags twitch.tv/commands">>
PassLine == <<"PASS oauth:", <<"t", "o", "k">>>>
NickLine == <<"NICK hereugo">>
PongLine == <<"PONG :tmi.twitch.tv">>
JoinLine(channel) == <<"JOIN #", channel>>
PartLine(channel) == <<"PART #", channel>>

(***************************************************************************)
(* The state the handlers work on: the manager's fields and the browser    *)
(* objects they reach.  A handler is an operator from state to state; the  *)
(* field thrown names the exception that escapes it, the field rejection   *)
(* the error that rejects a promise made in it.                            *)
(***************************************************************************)
Sockets == 1..MaxSockets
Ports == 1..MaxPorts

NoError == "none"

Throw(st, error) == [st EXCEPT !.thrown = error]

\* PublishSubscribeTemplate.subscribe(event, callback, {once})
subscribe(st, event, callback, once) ==
    LET subs == IF event \in DOMAIN st.subscribers
                THEN st.subscribers[event] ELSE <<>>
    IN  [st EXCEPT !.subscribers =
            SetKey(@, event, Append(subs, [callback |-> callback, once |-> once]))]

\* PublishSubscribeTemplate.unsubscribe(event, callback)
unsubscribe(st, event, callback) ==
    IF event \notin DOMAIN st.subscribers THEN st
    ELSE [st EXCEPT !.subscribers[event] =
            SelectSeq(@, LAMBDA sub : sub.callback # callback)]

\* WebSocket.send on the socket the manager holds: a TypeError when it holds
\* none, an InvalidStateError while connecting, dropped when closing or closed
send(st, message) ==
    IF st.socket = NULL THEN Throw(st, "TypeError")
    ELSE CASE st.readyState[st.socket] = "CONNECTING" -> Throw(st, "InvalidStateError")
           [] st.readyState[st.socket] = "OPEN" ->
                [st EXCEPT !.sent[st.socket] = Append(@, message)]
           [] OTHER -> st

\* an async function: with no port the TypeError rejects the returned promise
\* and nothing is thrown to the caller
postChromeMessage(st, command, payload) ==
    IF st.chromePort = NULL THEN [st EXCEPT !.rejection = "TypeError"]
    ELSE [st EXCEPT !.inbox[st.chromePort] =
            Append(@, [command |-> command, payload |-> payload])]

join(st) == send(st, JoinLine(st.channel))

part(st) == send(st, PartLine(st.channel))

\* WorkerInterfacer.twitchConnectedCallback; milestone records, for the
\* claims, the socket whose login acknowledgment is being handled
twitchConnectedCallback(st, ircMessage) ==
    LET s1 == [st EXCEPT !.isTwitchConnected = TRUE,
                         !.milestone = @ \cup {st.target}]
        s2 == postChromeMessage(s1, TCON, NoPayload)
        s3 == subscribe(s2, PRIVMSG, "forwardPRIVMSG", FALSE)
    IN  join(s3)

\* the argument of a handler when emit is called without data: undefined,
\* as an object no message equals
NoData == [undefined |-> TRUE]

\* the arrow function subscribed to PRIVMSG; irc.toJSON is a TypeError when
\* the topic is published without data
forwardPRIVMSG(st, irc) ==
    IF "undefined" \in DOMAIN irc THEN Throw(st, "TypeError")
    ELSE postChromeMessage(st, TIRC, SerializeIRC(toJSON(irc)))

\* the topic the handler "again" subscribes to
TopicT == <<"t">>

\* a handler that notes its invocation and the data it got
record(st, callback, data) ==
    [st EXCEPT !.calls = Append(@, [callback |-> callback, data |-> data])]

\* a recording handler that then throws
boom(st, data) == Throw(record(st, "boom", data), "Error")

\* a recording handler that then subscribes the handler h1 once to TopicT
again(st, data) == subscribe(record(st, "again", data), TopicT, "h1", TRUE)

\* subscriber.callback(data)
Call(callback, st, data) ==
    CASE callback = "twitchConnectedCallback" -> twitchConnectedCallback(st, data)
      [] callback = "forwardPRIVMSG" -> forwardPRIVMSG(st, data)
      [] callback = "boom" -> boom(st, data)
      [] callback = "again" -> again(st, data)
      [] OTHER -> record(st, callback, data)

\* the forEach of emit over the handlers registered when it starts
RECURSIVE callEach(_, _, _, _)
callEach(st, subs, i, data) ==
    IF i > Len(subs) \/ st.thrown # NoError THEN st
    ELSE callEach(Call(subs[i].callback, st, data), subs, i + 1, data)

\* PublishSubscribeTemplate.emit(event, data)
emit(st, event, data) ==
    IF event \notin DOMAIN st.subscribers THEN st
    ELSE LET after == callEach(st, st.subscribers[event], 1, data)
         IN  IF after.thrown # NoError THEN after
             ELSE [after EXCEPT !.subscribers[event] =
                     SelectSeq(@, LAMBDA sub : ~sub.once)]

(***************************************************************************)
(* WorkerInterfacer: the handlers of the local port.                       *)
(***************************************************************************)
\* port.disconnect(): the port closes and the other end gets onDisconnect
disconnect(st, port) == [st EXCEPT !.portState[port] = "disconnected"]

\* onChromeDisconnect that also forgets the upstream session
onChromeDisconnect_EndsSession(st) ==
    [st EXCEPT !.isChromeConnected = FALSE, !.chromePort = NULL,
               !.isTwitchConnected = FALSE, !.socket = NULL]

\* WorkerInterfacer.onChromeDisconnect
onChromeDisconnect(st) ==
    [st EXCEPT !.isChromeConnected = FALSE, !.chromePort = NULL]

\* onChromeConnect without its eviction branch
onChromeConnect_NoEvict(st, port) == [st EXCEPT !.chromePort = port]

\* WorkerInterfacer.onChromeConnect
onChromeConnect(st, port) ==
    LET s1 == IF st.isChromeConnected \/ st.chromePort # NULL
              THEN IF st.chromePort = NULL THEN Throw(st, "TypeError")
                   ELSE onChromeDisconnect(disconnect(st, st.chromePort))
              ELSE st
    IN  IF s1.thrown # NoError THEN s1 ELSE [s1 EXCEPT !.chromePort = port]

\* new WebSocket(url): the next socket, connecting
newWebSocket(st) ==
    [st EXCEPT !.readyState[st.nsockets + 1] = "CONNECTING", !.nsockets = @ + 1]

\* socket.close(): an open socket starts its closing handshake
close(st, s) ==
    IF st.readyState[s] \in {"CONNECTING", "OPEN"}
    THEN [st EXCEPT !.readyState[s] = "CLOSING"] ELSE st

\* WorkerInterfacer.connectTwitch
connectTwitch(st) ==
    LET s1 == IF st.socket # NULL /\ st.readyState[st.socket] = "OPEN"
              THEN close(st, st.socket) ELSE st
        s2 == newWebSocket(s1)
    IN  [s2 EXCEPT !.socket = s2.nsockets]

\* handleChromeCSYN that leaves isChromeConnected as it is
handleChromeCSYN_NoFlag(st, message) ==
    LET s1 == [st EXCEPT !.channel = message.payload.channel]
        s2 == subscribe(s1, GLOBALUSERSTATE, "twitchConnectedCallback", TRUE)
        s3 == connectTwitch(s2)
    IN  postChromeMessage(s3, CACK, NoPayload)

\* WorkerInterfacer.handleChromeCSYN; the console.assert only logs
handleChromeCSYN(st, message) ==
    LET s1 == [st EXCEPT !.isChromeConnected = TRUE,
                         !.channel = message.payload.channel]
        s2 == subscribe(s1, GLOBALUSERSTATE, "twitchConnectedCallback", TRUE)
        s3 == connectTwitch(s2)
    IN  postChromeMessage(s3, CACK, NoPayload)

\* WorkerInterfacer.handleChromeCFIN
handleChromeCFIN(st, message) == postChromeMessage(st, CFIN, NoPayload)

\* handleTFIN without its part()
handleTFIN_CloseOnly(st, message) ==
    IF st.socket = NULL THEN st ELSE close(st, st.socket)

\* WorkerInterfacer.handleTFIN; the console.assert only logs
handleTFIN(st, message) ==
    LET s1 == part(st)
    IN  IF s1.thrown # NoError THEN s1 ELSE close(s1, s1.socket)

\* WorkerInterfacer.onChromeMessage
onChromeMessage(st, message) ==
    LET s1 == emit(st, message.command, NoData)
    IN  IF s1.thrown # NoError THEN s1
        ELSE CASE message.command = CSYN -> handleChromeCSYN(s1, message)
               [] message.command = CFIN -> handleChromeCFIN(s1, message)
               [] message.command = TFIN -> handleTFIN(s1, message)
               [] OTHER -> s1

(***************************************************************************)
(* WorkerInterfacer: the handlers of the upstream socket.                  *)
(***************************************************************************)
\* onSocketClose without its postChromeMessage
onSocketClose_Silent(st) ==
    [st EXCEPT !.isTwitchConnected = FALSE, !.socket = NULL]

\* WorkerInterfacer.onSocketClose
onSocketClose(st) ==
    LET s1 == [st EXCEPT !.isTwitchConnected = FALSE, !.socket = NULL]
    IN  postChromeMessage(s1, TFIN, NoPayload)

\* WorkerInterfacer.handlePING
handlePING(st, ircMessage) == send(st, PongLine)

\* obj[key], undefined when obj has no such property
GetKey(obj, key) == IF key \in DOMAIN obj THEN obj[key] ELSE UNDEF

\* array[i] for the 0-based index i, undefined beyond the end
At(array, i) == IF i < Len(array) THEN array[i + 1] ELSE UNDEF

\* handleNOTICE with params[0] for the description
handleNOTICE_FirstParam(st, ircMessage) ==
    postChromeMessage(st, TERR,
        DropUndefined([reason |-> GetKey(ircMessage.tags, MsgId),
                       description |-> At(ircMessage.params, 0)]))

\* WorkerInterfacer.handleNOTICE: msgId !== null holds also for undefined
handleNOTICE(st, ircMessage) ==
    LET msgId == GetKey(ircMessage.tags, MsgId)
    IN  postChromeMessage(st, TERR,
            DropUndefined([reason |-> msgId, description |-> At(ircMessage.params, 1)]))

\* WorkerInterfacer.onIRCMessage
onIRCMessage(st, ircMessage) ==
    LET s1 == emit(st, ircMessage.command, ircMessage)
    IN  IF s1.thrown # NoError THEN s1
        ELSE CASE ircMessage.command = PING -> handlePING(s1, ircMessage)
               [] ircMessage.command = NOTICE -> handleNOTICE(s1, ircMessage)
               [] OTHER -> s1

\* a forEach that ends at the first line without a command
RECURSIVE eachLine_StopAtMalformed(_, _, _)
eachLine_StopAtMalformed(st, lines, i) ==
    IF i > Len(lines) \/ st.thrown # NoError THEN st
    ELSE LET ircMessage == parse(lines[i])
             s1 == IF ircMessage.command = PRIVMSG /\ st.isTwitchConnected
                      /\ st.target = st.socket /\ st.chromePort # NULL
                   THEN [st EXCEPT !.arrived[st.chromePort] =
                           Append(@, SerializeIRC(toJSON(ircMessage)))]
                   ELSE st
         IN  IF ircMessage.command = <<>> THEN st
             ELSE eachLine_StopAtMalformed(
                      onIRCMessage(s1, ircMessage), lines, i + 1)

\* the forEach of onSocketMessage over the lines, from line i on; arrived
\* records, for the claims, the chat lines that arrive on the socket the
\* manager holds while it is connected and holds a peer
RECURSIVE eachLine(_, _, _)
eachLine(st, lines, i) ==
    IF i > Len(lines) \/ st.thrown # NoError THEN st
    ELSE LET ircMessage == parse(lines[i])
             s1 == IF ircMessage.command = PRIVMSG /\ st.isTwitchConnected
                      /\ st.target = st.socket /\ st.chromePort # NULL
                   THEN [st EXCEPT !.arrived[st.chromePort] =
                           Append(@, SerializeIRC(toJSON(ircMessage)))]
                   ELSE st
         IN  eachLine(onIRCMessage(s1, ircMessage), lines, i + 1)

\* WorkerInterfacer.onSocketMessage
onSocketMessage(st, data) == eachLine(st, SplitCRLF(Trim(data)), 1)

(***************************************************************************)
(* The OAuth bootstrap of onSocketOpen, one step per suspension point.     *)
(*   "oauth"     awaiting chrome.identity.launchWebAuthFlow                *)
(*   "callback"  chrome.storage.local.get called, its callback not run yet *)
(*   "remove"    awaiting chrome.storage.local.remove                      *)
(*   "done"      ended: its lines are sent, or an error rejected the       *)
(*               promise of onSocketOpen or of the callback                *)
(* The storage serves the calls of the worker in the order it makes them,  *)
(* so a call takes effect, and a get reads, when it is made.               *)
(***************************************************************************)
\* no value under the key oauth_state
NoState == NULL

\* a state parameter the manager never generated
Forged == MaxSockets + 1

\* the bootstrap of a socket that has not opened
NoBoot == [pc |-> "idle", state |-> NoState, returned |-> NoState,
           stored |-> NoState]

\* a bootstrap that ended: its local variables are gone
Ended == [NoBoot EXCEPT !.pc = "done"]

\* the async function or callback of bootstrap s ends with a rejected promise
Reject(st, s, error) == [st EXCEPT !.boot[s] = Ended, !.rejection = error]

\* the redirects of the provider to the bootstrap of socket s: the state and
\* error parameters of the URL's hash
Responses(s) == [state : {s, Forged}, error : BOOLEAN]

\* WorkerInterfacer.oauth, for the bootstrap of socket s: crypto.randomUUID()
\* is unique, as is s; the state is stored and the web flow launched
oauth(st, s) ==
    [st EXCEPT !.oauth_state = s,
               !.boot[s] = [NoBoot EXCEPT !.pc = "oauth", !.state = s]]

\* WorkerInterfacer.onSocketOpen up to its await
onSocketOpen(st, s) == oauth(st, s)

\* onSocketOpen from the resolution of oauth() to the call of storage.get
onOAuthResponse(st, s, resp) ==
    IF resp.error THEN Reject(st, s, "AuthenticationError")
    ELSE [st EXCEPT !.boot[s].pc = "callback", !.boot[s].returned = resp.state,
                    !.boot[s].stored = st.oauth_state]

\* launchWebAuthFlow rejects: onSocketOpen ends at its await
onOAuthRejected(st, s) == Reject(st, s, "WebAuthFlowError")

\* the get callback up to its await: storage.remove is called
storageCallback(st, s) ==
    [st EXCEPT !.boot[s].pc = "remove", !.oauth_state = NoState]

\* the three sends with NICK ahead of PASS
sendAuth_NickFirst(st, s) ==
    LET s1 == send(st, CapReqLine)
        s2 == IF s1.thrown # NoError THEN s1 ELSE send(s1, NickLine)
        s3 == IF s2.thrown # NoError THEN s2 ELSE send(s2, PassLine)
    IN  IF s3.thrown # NoError
        THEN Reject([s3 EXCEPT !.thrown = NoError], s, s3.thrown)
        ELSE [s3 EXCEPT !.boot[s] = Ended]

\* the three sends of the callback; a throw rejects the callback's promise
sendAuth(st, s) ==
    LET s1 == send(st, CapReqLine)
        s2 == IF s1.thrown # NoError THEN s1 ELSE send(s1, PassLine)
        s3 == IF s2.thrown # NoError THEN s2 ELSE send(s2, NickLine)
    IN  IF s3.thrown # NoError
        THEN Reject([s3 EXCEPT !.thrown = NoError], s, s3.thrown)
        ELSE [s3 EXCEPT !.boot[s] = Ended]

\* the get callback after the remove: the validation, then the sends;
\* accessToken tells whether the redirect carries an access_token, which the
\* callback reads here
validate(st, s, accessToken) ==
    LET b == st.boot[s]
    IN  IF b.stored = NoState \/ b.stored # b.returned
        THEN Reject(st, s, "SecurityError")
        ELSE IF ~accessToken THEN Reject(st, s, "MissingAccessToken")
             ELSE sendAuth(st, s)

(***************************************************************************)
(* The chat server: what it writes on a socket follows from what the       *)
(* manager wrote on it.                                                    *)
(***************************************************************************)
CRLF == <<"\r", "\n">>

\* :tmi GLOBALUSERSTATE
GusLine == <<":", "t", "m", "i", " ">> \o GLOBALUSERSTATE

\* :bob!bob@h PRIVMSG #abc :hi
BobLine ==
    <<":", "b", "o", "b", "!", "b", "o", "b", "@", "h", " ">> \o PRIVMSG
        \o <<" ", "#", "a", "b", "c", " ", ":", "h", "i">>

\* :amy!amy@h PRIVMSG #abc :yo
AmyLine ==
    <<":", "a", "m", "y", "!", "a", "m", "y", "@", "h", " ">> \o PRIVMSG
        \o <<" ", "#", "a", "b", "c", " ", ":", "y", "o">>

\* PING :tmi
PingLine == PING \o <<" ", ":", "t", "m", "i">>

\* @msg-id=x :tmi NOTICE #abc :no
NoticeLine ==
    <<"@">> \o MsgId \o <<"=", "x", " ", ":", "t", "m", "i", " ">> \o NOTICE
        \o <<" ", "#", "a", "b", "c", " ", ":", "n", "o">>

\* @k=v, a line in which no command can be located
TagOnlyLine == <<"@", "k", "=", "v">>

\* two chat lines with such a line between them, and without it
MalformedFrame == AmyLine \o CRLF \o TagOnlyLine \o CRLF \o BobLine \o CRLF
WellFormedFrame == AmyLine \o CRLF \o BobLine \o CRLF

IsJoin(line) == Len(line) = 2 /\ line[1] = "JOIN #"
IsPart(line) == Len(line) = 2 /\ line[1] = "PART #"

\* the server has the credentials of the connection
Authenticated(lines) ==
    \E i, j \in 1..Len(lines) : i < j /\ lines[i] = PassLine /\ lines[j] = NickLine

\* the connection is in a channel
Joined(lines) ==
    \E i \in 1..Len(lines) :
        IsJoin(lines[i]) /\ \A j \in (i + 1)..Len(lines) : ~IsPart(lines[j])

\* the socket messages the server may write on socket s: the login
\* acknowledgment once, then keepalive probes and notices, and chat lines
\* while the connection is in a channel
ServerData(st, s) ==
    (IF Authenticated(st.sent[s]) /\ s \notin st.welcomed
     THEN {GusLine \o CRLF} ELSE {})
    \cup
    (IF s \in st.welcomed /\ Joined(st.sent[s])
     THEN {BobLine \o CRLF,
           BobLine \o CRLF \o PingLine \o CRLF \o AmyLine \o CRLF,
           MalformedFrame}
     ELSE {})
    \cup
    (IF s \in st.welcomed
     THEN {PingLine \o CRLF, NoticeLine \o CRLF} ELSE {})

\* the socket message comes after the login acknowledgment
IsChat(data) == data # GusLine \o CRLF

\* the server notes the login acknowledgment it wrote
serverWrote(st, s, data) ==
    IF data = GusLine \o CRLF THEN [st EXCEPT !.welcomed = @ \cup {s}] ELSE st

(***************************************************************************)
(* ContentInterface (src/content.js), the client at the other end of a     *)
(* port.  A client is a record of its two flags; handled counts the        *)
(* messages of the port it has handled, outbox holds the messages it       *)
(* posted that the manager has not received, port tells whether it has     *)
(* disconnected its port.                                                  *)
(***************************************************************************)
\* the fields of a new ContentInterface
ContentInterface ==
    [isChromeConnected |-> FALSE, isTwitchConnected |-> FALSE,
     handled |-> 0, outbox |-> <<>>, port |-> "open", pip |-> "none"]

\* ContentInterface.postChromeMessage
Content_postChromeMessage(c, command, payload) ==
    [c EXCEPT !.outbox = Append(@, [command |-> command, payload |-> payload])]

\* ContentInterface.onEnterPIP on the page of a channel: the window of the
\* picture in picture is open, connect() posts CSYN
Content_onEnterPIP(c, channelName) ==
    Content_postChromeMessage([c EXCEPT !.pip = "open"],
                              CSYN, [channel |-> channelName])

\* the pagehide listener of onEnterPIP
Content_pagehide(c) ==
    Content_postChromeMessage([c EXCEPT !.pip = "hidden"], TFIN, NoPayload)

\* ContentInterface.onDisconnect
Content_onDisconnect(c) == [c EXCEPT !.isChromeConnected = FALSE]

\* ContentInterface.handleTFIN
Content_handleTFIN(c, message) ==
    Content_postChromeMessage([c EXCEPT !.isTwitchConnected = FALSE],
                              CFIN, NoPayload)

\* ContentInterface.handleCFIN: chromePort.disconnect(), then onDisconnect
Content_handleCFIN(c, message) ==
    Content_onDisconnect([c EXCEPT !.port = "closed"])

\* ContentInterface.onMessage; nothing subscribes to the client's bus, the
\* console.assert of handleTIRC only logs, handleTCON and handleCACK set a flag
Content_onMessage(c, message) ==
    LET c1 == [c EXCEPT !.handled = @ + 1]
    IN  CASE message.command = CACK -> [c1 EXCEPT !.isChromeConnected = TRUE]
          [] message.command = CFIN -> Content_handleCFIN(c1, message)
          [] message.command = TIRC -> c1
          [] message.command = TCON -> [c1 EXCEPT !.isTwitchConnected = TRUE]
          [] message.command = TFIN -> Content_handleTFIN(c1, message)
          [] OTHER -> c1

(***************************************************************************)
(* The state machine.                                                      *)
(***************************************************************************)
VARIABLES
    socket,             \* WorkerInterfacer.socket: NULL or a socket
    chromePort,         \* WorkerInterfacer.chromePort: NULL or a port
    isChromeConnected,
    isTwitchConnected,
    channel,            \* WorkerInterfacer.channel, UNDEF until a CSYN
    subscribers,        \* PublishSubscribeTemplate.subscribers
    readyState,         \* of each socket; "NONE" before its creation
    sent,               \* the lines transmitted on each socket not yet closed
    nsockets,           \* the sockets created
    welcomed,           \* the sockets on which the server acknowledged the login
    portState,          \* of each port: "none", "open", "closed" (by its other
                        \* end), "disconnected" (by the manager: the other end
                        \* gets onDisconnect)
    inbox,              \* the control messages posted on each open port
    nports,             \* the ports connected
    oauth_state,        \* chrome.storage.local, key oauth_state
    boot,               \* the OAuth bootstrap of each socket
    arrived,            \* per open port, the chat lines that arrived for it
    milestone,          \* the sockets whose login acknowledgment was handled
    nchat,              \* the socket messages with chat lines received
    ncfin,              \* the CFIN messages received
    calls,              \* the invocations the recording handlers of the bus noted
    content,            \* the ContentInterface at the other end of each port
    call,               \* the static function of IRCMessage called, its argument
    ret                 \* the function that returned last, what it returned

vars == <<socket, chromePort, isChromeConnected, isTwitchConnected, channel,
          subscribers, readyState, sent, nsockets, welcomed, portState, inbox,
          nports, oauth_state, boot, arrived, milestone, nchat, ncfin,
          calls, content, call, ret>>

\* the state a handler starts from; target is the socket of the event handled,
\* thrown and rejection are the outcome: the exception that escapes the handler
\* and the error that rejects a promise it made
Cur ==
    [socket |-> socket, chromePort |-> chromePort,
     isChromeConnected |-> isChromeConnected,
     isTwitchConnected |-> isTwitchConnected, channel |-> channel,
     subscribers |-> subscribers, readyState |-> readyState, sent |-> sent,
     nsockets |-> nsockets, welcomed |-> welcomed, portState |-> portState,
     inbox |-> inbox, oauth_state |-> oauth_state, boot |-> boot,
     thrown |-> NoError, rejection |-> NoError, arrived |-> arrived,
     milestone |-> milestone, target |-> NULL, calls |-> calls,
     content |-> content]

\* the state a handler leaves; logs of browser objects end with the object
Becomes(st) ==
    /\ socket' = st.socket
    /\ chromePort' = st.chromePort
    /\ isChromeConnected' = st.isChromeConnected
    /\ isTwitchConnected' = st.isTwitchConnected
    /\ channel' = st.channel
    /\ subscribers' = st.subscribers
    /\ readyState' = st.readyState
    /\ sent' = [s \in Sockets |->
                  IF st.readyState[s] = "CLOSED" THEN <<>> ELSE st.sent[s]]
    /\ nsockets' = st.nsockets
    /\ welcomed' = {s \in st.welcomed : st.readyState[s] # "CLOSED"}
    /\ portState' = st.portState
    /\ inbox' = [p \in Ports |->
                   IF st.portState[p] = "open" THEN st.inbox[p] ELSE <<>>]
    /\ oauth_state' = st.oauth_state
    /\ boot' = st.boot
    /\ arrived' = [p \in Ports |->
                     IF st.portState[p] = "open" THEN st.arrived[p] ELSE <<>>]
    /\ milestone' = {s \in st.milestone : st.readyState[s] # "CLOSED"}
    /\ calls' = st.calls
    /\ content' = [p \in Ports |->
                     IF st.portState[p] = "open" THEN st.content[p]
                     ELSE ContentInterface]
    /\ UNCHANGED <<call, ret>>

\* no call of a static function of IRCMessage, nothing returned
NoCall == [fn |-> "none", arg |-> <<>>]
NoRet == [of |-> "none", value |-> <<>>]

\* the fields of a new WorkerInterfacer, and browser objects not yet created
Created ==
    /\ socket = NULL
    /\ chromePort = NULL
    /\ isChromeConnected = FALSE
    /\ isTwitchConnected = FALSE
    /\ channel = UNDEF
    /\ subscribers = EmptyObject
    /\ readyState = [s \in Sockets |-> "NONE"]
    /\ sent = [s \in Sockets |-> <<>>]
    /\ nsockets = 0
    /\ welcomed = {}
    /\ portState = [p \in Ports |-> "none"]
    /\ inbox = [p \in Ports |-> <<>>]
    /\ nports = 0
    /\ oauth_state = NoState
    /\ boot = [s \in Sockets |-> NoBoot]
    /\ arrived = [p \in Ports |-> <<>>]
    /\ milestone = {}
    /\ nchat = 0
    /\ ncfin = 0
    /\ calls = <<>>
    /\ content = [p \in Ports |-> ContentInterface]

Init == Created /\ call = NoCall /\ ret = NoRet

\* the control messages a peer sends
PeerMessages ==
    [command : {CSYN}, payload : [channel : Channels]]
    \cup [command : {CFIN, TFIN, XCMD}, payload : {NoPayload}]

\* a connect that waits for the pending bootstraps
PeerConnect_AfterBootstrap ==
    /\ nports < MaxPorts
    /\ \A s \in Sockets : boot[s].pc # "oauth"
    /\ Becomes(onChromeConnect(
           [Cur EXCEPT !.portState[nports + 1] = "open"], nports + 1))
    /\ nports' = nports + 1
    /\ UNCHANGED <<nchat, ncfin>>

\* chrome.runtime.onConnect: a content client connects
PeerConnect ==
    /\ nports < MaxPorts
    /\ Becomes(onChromeConnect(
           [Cur EXCEPT !.portState[nports + 1] = "open"], nports + 1))
    /\ nports' = nports + 1
    /\ UNCHANGED <<nchat, ncfin>>

\* the peer sends CFIN in a connected session or in answer to TFIN
MayFinish(p) ==
    \/ isTwitchConnected /\ socket # NULL /\ readyState[socket] = "OPEN"
    \/ inbox[p] # <<>> /\ inbox[p][Len(inbox[p])].command = TFIN

\* port.onMessage: a control message of the peer arrives
PeerMessage(p, message) ==
    /\ portState[p] = "open"
    /\ message.command = CSYN => nsockets < MaxSockets
    /\ message.command = CFIN => ncfin < MaxCfin /\ MayFinish(p)
    /\ Becomes(onChromeMessage(Cur, message))
    /\ ncfin' = IF message.command = CFIN THEN ncfin + 1 ELSE ncfin
    /\ UNCHANGED <<nports, nchat>>

\* port.onDisconnect: the other end closed the port
PeerDisconnect(p) ==
    /\ portState[p] = "open"
    /\ Becomes(onChromeDisconnect([Cur EXCEPT !.portState[p] = "closed"]))
    /\ UNCHANGED <<nports, nchat, ncfin>>

\* the open event of socket s
SocketOpen(s) ==
    /\ readyState[s] = "CONNECTING"
    /\ Becomes(onSocketOpen([Cur EXCEPT !.readyState[s] = "OPEN"], s))
    /\ UNCHANGED <<nports, nchat, ncfin>>

\* the close event of socket s: the connection failed, the server closed it
\* or the closing handshake ended
SocketClose(s) ==
    /\ readyState[s] \in {"CONNECTING", "OPEN", "CLOSING"}
    /\ Becomes(onSocketClose([Cur EXCEPT !.readyState[s] = "CLOSED"]))
    /\ UNCHANGED <<nports, nchat, ncfin>>

\* a message event of socket s: delivered only while the socket is open
SocketMessage(s, data) ==
    /\ readyState[s] = "OPEN"
    /\ data \in ServerData(Cur, s)
    /\ IsChat(data) => nchat < MaxChat
    /\ Becomes(onSocketMessage(
           serverWrote([Cur EXCEPT !.target = s], s, data), data))
    /\ nchat' = IF IsChat(data) THEN nchat + 1 ELSE nchat
    /\ UNCHANGED <<nports, ncfin>>

\* launchWebAuthFlow resolves with the provider's redirect
OAuthResponse(s, resp) ==
    /\ boot[s].pc = "oauth"
    /\ Becomes(onOAuthResponse(Cur, s, resp))
    /\ UNCHANGED <<nports, nchat, ncfin>>

\* launchWebAuthFlow rejects
OAuthRejected(s) ==
    /\ boot[s].pc = "oauth"
    /\ Becomes(onOAuthRejected(Cur, s))
    /\ UNCHANGED <<nports, nchat, ncfin>>

\* the callback of storage.get runs
StorageCallback(s) ==
    /\ boot[s].pc = "callback"
    /\ Becomes(storageCallback(Cur, s))
    /\ UNCHANGED <<nports, nchat, ncfin>>

\* storage.remove resolves
Validate(s, accessToken) ==
    /\ boot[s].pc = "remove"
    /\ Becomes(validate(Cur, s, accessToken))
    /\ UNCHANGED <<nports, nchat, ncfin>>

Next ==
    \/ PeerConnect
    \/ \E p \in Ports, message \in PeerMessages : PeerMessage(p, message)
    \/ \E p \in Ports : PeerDisconnect(p)
    \/ \E s \in Sockets : SocketOpen(s)
    \/ \E s \in Sockets : SocketClose(s)
    \/ \E s \in Sockets : \E data \in ServerData(Cur, s) : SocketMessage(s, data)
    \/ \E s \in Sockets : \E resp \in Responses(s) : OAuthResponse(s, resp)
    \/ \E s \in Sockets : OAuthRejected(s)
    \/ \E s \in Sockets : StorageCallback(s)
    \/ \E s \in Sockets, accessToken \in BOOLEAN : Validate(s, accessToken)

Spec == Init /\ [][Next]_vars

(***************************************************************************)
(* The composed system: the peer of each port is a ContentInterface, the   *)
(* control messages the manager receives are those the clients post, and   *)
(* the messages of a port are delivered in order, in both directions,      *)
(* while the port is open.                                                 *)
(***************************************************************************)
\* a page enters picture in picture: its client connects, the manager gets
\* chrome.runtime.onConnect
ContentConnect(channelName) ==
    /\ nports < MaxPorts
    /\ Becomes(onChromeConnect(
           [Cur EXCEPT !.portState[nports + 1] = "open",
                       !.content[nports + 1] =
                           Content_onEnterPIP(ContentInterface, channelName)],
           nports + 1))
    /\ nports' = nports + 1
    /\ UNCHANGED <<nchat, ncfin>>

\* the picture-in-picture window of the client of port p closes
ContentPagehide(p) ==
    /\ portState[p] = "open"
    /\ content[p].pip = "open"
    /\ Becomes([Cur EXCEPT !.content[p] = Content_pagehide(@)])
    /\ UNCHANGED <<nports, nchat, ncfin>>

\* port.onMessage of the manager: the oldest message the client of port p
\* posted arrives
ContentDeliver(p) ==
    /\ portState[p] = "open"
    /\ content[p].outbox # <<>>
    /\ Becomes(onChromeMessage([Cur EXCEPT !.content[p].outbox = Tail(@)],
                               Head(content[p].outbox)))
    /\ UNCHANGED <<nports, nchat, ncfin>>

\* port.onMessage of the client of port p: the next message the manager
\* posted arrives; when the client disconnects the port, the manager gets
\* port.onDisconnect
ContentHandle(p) ==
    /\ portState[p] = "open"
    /\ content[p].handled < Len(inbox[p])
    /\ LET c == Content_onMessage(content[p], inbox[p][content[p].handled + 1])
           st == [Cur EXCEPT !.content[p] = c]
       IN  IF c.port = "closed"
           THEN Becomes(onChromeDisconnect([st EXCEPT !.portState[p] = "closed"]))
           ELSE Becomes(st)
    /\ UNCHANGED <<nports, nchat, ncfin>>

NextSession ==
    \/ \E channelName \in Channels : ContentConnect(channelName)
    \/ \E p \in Ports : ContentPagehide(p)
    \/ \E p \in Ports : ContentDeliver(p)
    \/ \E p \in Ports : ContentHandle(p)
    \/ \E s \in Sockets : SocketOpen(s)
    \/ \E s \in Sockets : SocketClose(s)
    \/ \E s \in Sockets : \E data \in ServerData(Cur, s) : SocketMessage(s, data)
    \/ \E s \in Sockets : \E resp \in Responses(s) : OAuthResponse(s, resp)
    \/ \E s \in Sockets : OAuthRejected(s)
    \/ \E s \in Sockets : StorageCallback(s)
    \/ \E s \in Sockets, accessToken \in BOOLEAN : Validate(s, accessToken)

SpecSession == Init /\ [][NextSession]_vars

(***************************************************************************)
(* Teardown in the composed system: pages of one channel, bootstraps that  *)
(* succeed, a server that acknowledges the login; the local transport      *)
(* delivers every message posted on a port that stays open.                *)
(***************************************************************************)
TeardownNext ==
    \/ ContentConnect(<<"a", "b", "c">>)
    \/ \E p \in Ports : ContentDeliver(p)
    \/ \E p \in Ports : ContentHandle(p)
    \/ \E s \in Sockets : SocketOpen(s)
    \/ \E s \in Sockets : SocketClose(s)
    \/ \E s \in Sockets : SocketMessage(s, GusLine \o CRLF)
    \/ \E s \in Sockets : OAuthResponse(s, [state |-> s, error |-> FALSE])
    \/ \E s \in Sockets : StorageCallback(s)
    \/ \E s \in Sockets : Validate(s, TRUE)

\* a message posted on a port is delivered while the port is open
SpecTeardown ==
    /\ Init
    /\ [][TeardownNext]_vars
    /\ \A p \in Ports : WF_vars(ContentDeliver(p)) /\ WF_vars(ContentHandle(p))

(***************************************************************************)
(* IRCMessage on its own: one of its static functions is called on an      *)
(* argument, and a parsed message goes through toJSON and fromJSON.        *)
(***************************************************************************)
MaxValueLen == 4

\* the fields of the manager and of the browser objects
worker ==
    <<socket, chromePort, isChromeConnected, isTwitchConnected, channel,
      subscribers, readyState, sent, nsockets, welcomed, portState, inbox,
      nports, oauth_state, boot, arrived, milestone, nchat, ncfin, calls,
      content>>

\* the characters of an escaped tag value: those of the five escape
\* sequences and a letter that follows a backslash in none
EscapeChars == {"\\", "s", ":", "r", "n", "x"}

\* the strings over EscapeChars of at most n characters
RECURSIVE Strings(_)
Strings(n) ==
    IF n = 0 THEN {<<>>}
    ELSE LET shorter == Strings(n - 1)
         IN  shorter \cup {Append(str, c) : str \in shorter, c \in EscapeChars}

\* a\sb\:c\\d
ExampleValue == <<"a", "\\", "s", "b", "\\", ":", "c", "\\", "\\", "d">>

\* the arguments of _unescapeIRC
UnescapeArgs == Strings(MaxValueLen) \cup {ExampleValue}

\* the raw tag values of the lines: plain, with an escape, with '=', empty
TagValues == {<<"v">>, <<"a", "\\", "s", "b">>, <<"a", "=", "b">>, <<>>}

\* the names in prefixes, the middle parameters, the trailing parameters
Names == {<<"n", "i", "c", "k">>, <<"u", "s", "e", "r">>, <<"h", "o", "s", "t">>, <<"n">>}
Middles == {<<"a">>, <<"b">>}
Trailings == {<<"h", "i">>, <<"c", " ", "d", " ", "e">>, <<>>, <<":", "x">>}
CMD == <<"C", "M", "D">>

\* the line with one tag, a full prefix, a command and a trailing parameter
FullLine(rawValue, nickname, user, host, command, trailing) ==
    <<"@", "k", "=">> \o rawValue \o <<" ", ":">> \o nickname \o <<"!">>
        \o user \o <<"@">> \o host \o <<" ">> \o command \o <<" ", ":">>
        \o trailing

\* what a full line is made of
FullInputs ==
    [rawValue : TagValues, user : {<<"u", "s", "e", "r">>, <<"n">>}, command : {CMD, PRIVMSG},
     trailing : Trailings]

FullLineOf(w) ==
    FullLine(w.rawValue, <<"n", "i", "c", "k">>, w.user, <<"h", "o", "s", "t">>, w.command, w.trailing)

FullLines == {FullLineOf(w) : w \in FullInputs}

\* the line of a command with middle parameters and, unless trailing is
\* UNDEF, a trailing parameter
RECURSIVE Spaced(_)
Spaced(middles) ==
    IF middles = <<>> THEN <<>>
    ELSE <<" ">> \o Head(middles) \o Spaced(Tail(middles))

ParamLine(middles, trailing) ==
    CMD \o Spaced(middles)
        \o (IF trailing = UNDEF THEN <<>> ELSE <<" ", ":">> \o trailing)

MiddleLists ==
    {<<>>} \cup {<<a>> : a \in Middles} \cup {<<a, b>> : a, b \in Middles}

ParamLines ==
    {ParamLine(ms, t) : ms \in MiddleLists, t \in Trailings \cup {UNDEF}}

\* the line of a command with the prefix token tok
PrefixLine(tok) == <<":">> \o tok \o <<" ">> \o CMD

PrefixLines ==
    {PrefixLine(n \o <<"!">> \o u \o <<"@">> \o h) : n, u, h \in Names}
    \cup {PrefixLine(n \o <<"!">> \o u) : n, u \in Names}
    \cup {PrefixLine(u \o <<"@">> \o h) : u, h \in Names}
    \cup {PrefixLine(h) : h \in Names}

\* lines without a command token: empty, tags only, tags and a prefix, a
\* prefix only; and two lines of the chat server
OtherLines ==
    {<<>>, <<"@", "k", "=", "v">>, <<"@", "k", "=", "v", " ", ":", "h", "o", "s", "t">>, <<":", "h", "o", "s", "t">>,
     PingLine, BobLine}

\* tag segments: a key without '=', escapes in a value and in a key, two
\* tags, a key twice, and two keys with the same unescaped form
TagSegments ==
    {<<"k">>,
     <<"k", "=", "a", "\\", "s", "b">>,
     <<"a", "\\", "s", "b", "=", "c", "\\", ":", "d">>,
     <<"a", "=", "1", ";", "b", "=", "\\", "\\">>,
     <<"a", "=", "1", ";", "b", ";", "a", "=", "2">>,
     <<"\\", "x", "=", "1", ";", "\\", "\\", "x", "=", "2">>}

\* the line of a command with the tag segment seg
TagLine(seg) == <<"@">> \o seg \o <<" ">> \o CMD

TagLines == {TagLine(seg) : seg \in TagSegments}

\* the arguments of parse
ParseArgs ==
    FullLines \cup ParamLines \cup PrefixLines \cup OtherLines \cup TagLines

InitIRC ==
    /\ Created
    /\ call \in [fn : {"parse"}, arg : ParseArgs]
                \cup [fn : {"_unescapeIRC"}, arg : UnescapeArgs]
    /\ ret = NoRet

\* IRCMessage.parse(line)
CallParse ==
    /\ call.fn = "parse"
    /\ ret = NoRet
    /\ ret' = [of |-> "parse", value |-> parse(call.arg)]
    /\ UNCHANGED <<worker, call>>

\* IRCMessage._unescapeIRC(str)
CallUnescape ==
    /\ call.fn = "_unescapeIRC"
    /\ ret = NoRet
    /\ ret' = [of |-> "_unescapeIRC", value |-> _unescapeIRC(call.arg)]
    /\ UNCHANGED <<worker, call>>

\* message.toJSON() on the parsed message
CallToJSON ==
    /\ ret.of = "parse"
    /\ ret' = [of |-> "toJSON", value |-> toJSON(ret.value)]
    /\ UNCHANGED <<worker, call>>

\* IRCMessage.fromJSON(json) on the object toJSON returned
CallFromJSON ==
    /\ ret.of = "toJSON"
    /\ ret' = [of |-> "fromJSON", value |-> fromJSON(ret.value)]
    /\ UNCHANGED <<worker, call>>

NextIRC == CallParse \/ CallUnescape \/ CallToJSON \/ CallFromJSON

SpecIRC == InitIRC /\ [][NextIRC]_vars

(***************************************************************************)
(* The event bus on its own: handlers are subscribed to and unsubscribed   *)
(* from two topics of the manager's bus, and the topics are published.     *)
(***************************************************************************)
MaxRegistered == 3
MaxCalls == 2

Topics == {TopicT, <<"u">>}
Callbacks == {"h1", "boom", "again"}
Data == {<<"x">>, <<"y">>}

\* the handlers registered for a topic
Registered(event) ==
    IF event \in DOMAIN subscribers THEN subscribers[event] ELSE <<>>

\* this.subscribe(event, callback, {once})
BusSubscribe(event, callback, once) ==
    /\ Len(Registered(TopicT)) + Len(Registered(<<"u">>)) < MaxRegistered
    /\ Becomes(subscribe(Cur, event, callback, once))
    /\ UNCHANGED <<nports, nchat, ncfin>>

\* this.unsubscribe(event, callback)
BusUnsubscribe(event, callback) ==
    /\ Becomes(unsubscribe(Cur, event, callback))
    /\ UNCHANGED <<nports, nchat, ncfin>>

\* this.emit(event, data); an exception of a handler goes to the caller
BusEmit(event, data) ==
    /\ Len(calls) + Len(Registered(event)) <= MaxCalls
    /\ Becomes(emit(Cur, event, data))
    /\ UNCHANGED <<nports, nchat, ncfin>>

NextBus ==
    \/ \E event \in Topics, callback \in Callbacks, once \in BOOLEAN :
           BusSubscribe(event, callback, once)
    \/ \E event \in Topics, callback \in Callbacks :
           BusUnsubscribe(event, callback)
    \/ \E event \in Topics, data \in Data : BusEmit(event, data)

SpecBus == Init /\ [][NextBus]_vars

(***************************************************************************)
(* The claims.                                                             *)
(***************************************************************************)
\* a control message without payload
Control(command) == [command |-> command, payload |-> NoPayload]

\* the session is Live: the manager is connected on an open socket it holds
Live == isTwitchConnected /\ socket # NULL /\ readyState[socket] = "OPEN"

\* the ports with a peer at their other end
Attached == {p \in Ports : portState[p] = "open"}

Range(seq) == {seq[i] : i \in 1..Len(seq)}

Last(seq) == seq[Len(seq)]

\* the payloads of the messages of a command, in the order they were posted
Payloads(msgs, command) ==
    LET sel == SelectSeq(msgs, LAMBDA m : m.command = command)
    IN  [i \in 1..Len(sel) |-> sel[i].payload]

\* every message of command b has a message of command a before it
Before(msgs, a, b) ==
    \A i \in 1..Len(msgs) :
        msgs[i].command = b => \E j \in 1..(i - 1) : msgs[j].command = a

\* C1: the chat lines that arrived on the held socket while the manager was
\* connected and a peer attached are, each exactly once and in their order
\* of arrival, the TIRC payloads the peer was sent for those lines.
C1_Forwarding ==
    \A p \in Attached :
        SelectSeq(Payloads(inbox[p], TIRC),
                  LAMBDA json : json \in Range(arrived[p])) = arrived[p]

\* C2: every socket that is connecting or open is the one the socket field
\* refers to, so that at most one is live and a replaced socket is closed
\* when its successor exists.
C2_OneLiveSocket ==
    \A s \in Sockets : readyState[s] \in {"CONNECTING", "OPEN"} => socket = s

\* C3: at most one peer is attached and it is the one the manager holds; a
\* connect while a peer is attached leaves exactly the new port attached, the
\* previous port disconnected by the manager, and the manager's fields as
\* onChromeDisconnect leaves them but for the new port.
C3_OnePeer ==
    /\ [](/\ Cardinality(Attached) <= 1
          /\ \A p \in Attached : chromePort = p
          /\ chromePort # NULL => chromePort \in Attached)
    /\ [][PeerConnect /\ chromePort # NULL =>
            LET torn == onChromeDisconnect(Cur)
            IN  /\ Attached' = {nports'}
                /\ chromePort' = nports'
                /\ portState'[chromePort] = "disconnected"
                /\ isChromeConnected' = torn.isChromeConnected
                /\ ~isChromeConnected'
                /\ socket' = torn.socket
                /\ isTwitchConnected' = torn.isTwitchConnected
                /\ channel' = torn.channel
                /\ subscribers' = torn.subscribers]_vars

\* a second peer connected and the first was evicted
C3_Witness ==
    /\ chromePort = 2
    /\ portState[1] = "disconnected"
    /\ portState[2] = "open"

\* C4: isTwitchConnected is true exactly when the manager handled the login
\* acknowledgment of the socket it holds and that socket has not closed.
C4_Coupling ==
    isTwitchConnected <=> (socket # NULL /\ socket \in milestone)

\* C5: a peer that was sent CACK was sent it before any TCON, and a TCON
\* before any TIRC; and when the line of bob saying hi arrived for it, it was
\* sent a TIRC that fromJSON turns into a message with params[1] = "hi" and
\* prefix.nickname = "bob".
C5_Handshake ==
    \A p \in Attached :
        (\E i \in 1..Len(inbox[p]) : inbox[p][i].command = CACK) =>
            /\ Before(inbox[p], CACK, TCON)
            /\ Before(inbox[p], TCON, TIRC)
            /\ SerializeIRC(toJSON(parse(BobLine))) \in Range(arrived[p]) =>
                 \E json \in Range(Payloads(inbox[p], TIRC)) :
                     /\ At(fromJSON(json).params, 1) = <<"h", "i">>
                     /\ fromJSON(json).prefix.nickname = <<"b", "o", "b">>

C7_StateMismatch ==
    \A s \in Sockets :
        /\ boot[s].pc = "oauth" =>
             \A resp \in Responses(s) :
                LET after == onOAuthResponse(Cur, s, resp)
                IN  resp.state # boot[s].state /\ after.boot[s].pc = "done" =>
                        /\ after.rejection = "SecurityError"
                        /\ after.sent = sent
                        /\ after.oauth_state # boot[s].state
        /\ boot[s].pc = "remove" /\ boot[s].returned # boot[s].state =>
             \A accessToken \in BOOLEAN :
                LET after == validate(Cur, s, accessToken)
                IN  /\ after.rejection = "SecurityError"
                    /\ after.sent = sent
                    /\ after.oauth_state # boot[s].state

\* C8: a CSYN that arrives while the held socket is open creates no socket,
\* closes none, and leaves the channel and the subscriptions as they were.
C8_CsynWhileOpen ==
    chromePort # NULL /\ socket # NULL /\ readyState[socket] = "OPEN"
        /\ nsockets < MaxSockets =>
            \A ch \in Channels :
                LET after == onChromeMessage(
                                 Cur, [command |-> CSYN, payload |-> [channel |-> ch]])
                IN  /\ after.nsockets = nsockets
                    /\ after.readyState = readyState
                    /\ after.channel = channel
                    /\ after.subscribers = subscribers

\* C9: a TFIN that arrives when the manager holds no open socket throws
\* nothing, sends nothing and changes nothing; with an open socket it sends
\* PART for the recorded channel and then closes the socket.
C9_EndSession ==
    chromePort # NULL =>
        LET after == onChromeMessage(Cur, Control(TFIN))
        IN  IF socket # NULL /\ readyState[socket] = "OPEN"
            THEN /\ after.thrown = NoError
                 /\ after.sent[socket] = Append(sent[socket], PartLine(channel))
                 /\ after.readyState[socket] = "CLOSING"
            ELSE /\ after.thrown = NoError
                 /\ after.sent = sent
                 /\ after = Cur

Subs(event) == IF event \in DOMAIN subscribers THEN subscribers[event] ELSE <<>>

\* C11: handling the login acknowledgment of the held socket, every other
\* socket being closed, with a peer attached posts one TCON, adds one PRIVMSG subscription
\* and sends one JOIN for the recorded channel on that socket.
C11_MilestoneOnce ==
    [][\A s \in Sockets :
         /\ socket = s
         /\ chromePort # NULL
         /\ \A t \in Sockets \ {s} : readyState[t] \in {"NONE", "CLOSED"}
         /\ SocketMessage(s, GusLine \o CRLF)
         => /\ inbox'[chromePort] = Append(inbox[chromePort], Control(TCON))
            /\ Len(Subs(PRIVMSG)') = Len(Subs(PRIVMSG)) + 1
            /\ sent'[s] = Append(sent[s], JoinLine(channel))]_vars

\* the redirect handled by the bootstrap of socket s passes the validation
Valid(s, accessToken) ==
    /\ boot[s].stored # NoState
    /\ boot[s].stored = boot[s].returned
    /\ accessToken

\* the steps of the bootstrap of socket s before its validation
BeforeValidation(s) ==
    \/ SocketOpen(s)
    \/ OAuthRejected(s)
    \/ StorageCallback(s)
    \/ \E resp \in Responses(s) : OAuthResponse(s, resp)

C13_TokenDiscarded ==
    [][\A s \in Sockets :
         boot[s].pc \in {"oauth", "callback", "remove"} /\ boot'[s].pc = "done"
            => oauth_state' # boot[s].state]_vars

\* the manager after the first k lines of a socket message of socket s
AfterLines(s, data, k) ==
    eachLine(serverWrote([Cur EXCEPT !.target = s], s, data),
             SubSeq(SplitCRLF(Trim(data)), 1, k), 1)

\* C14: whatever socket message the server may write on an open socket, the
\* handling of each of its PING lines sends one PONG on that socket and
\* throws nothing, before the next line of the message is handled.
C14_Keepalive ==
    \A s \in Sockets :
        readyState[s] = "OPEN" =>
            \A data \in ServerData(Cur, s) :
                LET lines == SplitCRLF(Trim(data))
                IN  \A k \in 1..Len(lines) :
                        parse(lines[k]).command = PING =>
                            /\ AfterLines(s, data, k).thrown = NoError
                            /\ AfterLines(s, data, k).sent[s] =
                                 Append(AfterLines(s, data, k - 1).sent[s], PongLine)

\* the TERR of the notice the server writes
NoticeError ==
    [command |-> TERR,
     payload |-> [reason |-> <<"x">>, description |-> <<"n", "o">>]]

\* C15: handling a NOTICE with a msg-id tag posts one TERR with the msg-id
\* as reason and params[1] as description to the attached peer, and to no
\* other port; it sends nothing upstream and leaves socket, channel, the two
\* connection flags and the subscriptions as they were.
C15_NoticeForwarded ==
    [][\A s \in Sockets :
         SocketMessage(s, NoticeLine \o CRLF) =>
            /\ chromePort # NULL =>
                 inbox'[chromePort] = Append(inbox[chromePort], NoticeError)
            /\ \A p \in Ports \ {chromePort} : inbox'[p] = inbox[p]
            /\ sent' = sent
            /\ UNCHANGED <<socket, chromePort, channel, isTwitchConnected,
                           isChromeConnected, subscribers, readyState>>]_vars

\* the attached peer was sent the TERR of a notice during a Live session
C15_Witness ==
    /\ Live
    /\ chromePort # NULL
    /\ inbox[chromePort] # <<>>
    /\ Last(inbox[chromePort]) = NoticeError

(***************************************************************************)
(* A retry: the bootstrap of the first socket fails, the peer then asks    *)
(* for a session again, and nothing but the first socket ever closes.      *)
(***************************************************************************)
\* the peer asks for a session, the second time after the first bootstrap
\* ended
RetryMessage(p, message) ==
    /\ message.command = CSYN
    /\ nsockets = 1 => boot[1].pc = "done"
    /\ PeerMessage(p, message)

\* the close event of the first socket
RetryClose == SocketClose(1)

\* storage.remove resolves; the redirect of the first bootstrap is not valid
RetryValidate(s, accessToken) ==
    /\ s = 1 => ~Valid(s, accessToken)
    /\ Validate(s, accessToken)

RetryNext ==
    \/ PeerConnect
    \/ \E p \in Ports, message \in PeerMessages : RetryMessage(p, message)
    \/ \E s \in Sockets : SocketOpen(s)
    \/ RetryClose
    \/ \E s \in Sockets : \E data \in ServerData(Cur, s) : SocketMessage(s, data)
    \/ \E s \in Sockets : \E resp \in Responses(s) : OAuthResponse(s, resp)
    \/ \E s \in Sockets : OAuthRejected(s)
    \/ \E s \in Sockets : StorageCallback(s)
    \/ \E s \in Sockets, accessToken \in BOOLEAN : RetryValidate(s, accessToken)

SpecRetry == Init /\ [][RetryNext]_vars

\* C16: in a retry, a valid redirect for the bootstrap of the second socket
\* sends CAP REQ, PASS and NICK on that socket, and the login acknowledgment
\* on it leaves the manager connected on that socket, with TCON posted to
\* the peer and the connection in the channel.
C16_RetryGoesLive ==
    [][/\ \A accessToken \in BOOLEAN :
            RetryValidate(2, accessToken) /\ Valid(2, accessToken) =>
                sent'[2] = sent[2] \o <<CapReqLine, PassLine, NickLine>>
       /\ SocketMessage(2, GusLine \o CRLF) /\ chromePort # NULL =>
            /\ isTwitchConnected'
            /\ socket' = 2
            /\ Control(TCON) \in Range(inbox'[chromePort])
            /\ Joined(sent'[2])]_vars

\* the machine is back in Idle: a session was started, every socket has
\* closed and no peer is attached
Idle ==
    /\ nsockets > 0
    /\ \A s \in Sockets : readyState[s] \in {"NONE", "CLOSED"}
    /\ Attached = {}

\* C17: back in Idle, the manager is as it was created: no socket, no port,
\* both connection flags false, no channel and no subscription.
C17_IdleIsInitial ==
    Idle =>
        /\ socket = NULL
        /\ chromePort = NULL
        /\ ~isChromeConnected
        /\ ~isTwitchConnected
        /\ channel = UNDEF
        /\ subscribers = EmptyObject

\* C18: with a peer attached and the held socket open, a second TFIN of the
\* peer, handled either right after the first or after the close event that
\* follows the first, throws nothing, posts nothing and leaves the manager
\* as the first TFIN, respectively the close event, left it.
C18_CloseIdempotent ==
    chromePort # NULL /\ socket # NULL /\ readyState[socket] = "OPEN" =>
        LET once == onChromeMessage(Cur, Control(TFIN))
            closed == onSocketClose([once EXCEPT !.readyState[socket] = "CLOSED"])
            twice == onChromeMessage(once, Control(TFIN))
            late == onChromeMessage(closed, Control(TFIN))
        IN  /\ twice.thrown = NoError
            /\ twice = once
            /\ late.thrown = NoError
            /\ late = closed

\* C19: the disconnect of the peer's port leaves isChromeConnected false and
\* no port held or attached, and leaves the socket, its state, what was sent
\* on it, isTwitchConnected, the channel and the subscriptions as they were.
C19_PeerDisconnect ==
    [][\A p \in Ports :
         PeerDisconnect(p) =>
            /\ ~isChromeConnected'
            /\ chromePort' = NULL
            /\ Attached' = {}
            /\ portState'[p] = "closed"
            /\ UNCHANGED <<socket, readyState, sent, isTwitchConnected,
                           channel, subscribers>>]_vars

\* the peer's port disconnected in a Live session, which goes on without it
C19_Witness ==
    /\ Live
    /\ channel \in Channels
    /\ chromePort = NULL
    /\ ~isChromeConnected
    /\ \E p \in Ports : portState[p] = "closed"

\* a bootstrap awaits the provider's response
Pending == \E s \in Sockets : boot[s].pc = "oauth"

Unrecognized == {CACK, TCON, TIRC, TERR, XCMD, GLOBALUSERSTATE, PRIVMSG}

\* C21: a control message is published on the bus under its command name and
\* then handled by the one handler of its command: CSYN, CFIN and TFIN end as
\* their handler leaves the published state, and a message with any other
\* command invokes no handler, sends nothing and leaves the state as it was.
C21_Dispatch ==
    /\ \A m \in PeerMessages :
        /\ m.command = CSYN =>
            onChromeMessage(Cur, m) = handleChromeCSYN(emit(Cur, CSYN, NoData), m)
        /\ m.command = CFIN =>
            onChromeMessage(Cur, m) = handleChromeCFIN(emit(Cur, CFIN, NoData), m)
        /\ m.command = TFIN =>
            onChromeMessage(Cur, m) = handleTFIN(emit(Cur, TFIN, NoData), m)
    /\ \A command \in Unrecognized :
        onChromeMessage(Cur, Control(command)) = Cur


\* C22: parse has no failing outcome, so each line it is given must come
\* back as a message with a non-empty command.
C22_CommandNonEmpty == ret.of = "parse" => ret.value.command # <<>>

\* the unescaped form of the raw tag values of the lines
Unescaped(rawValue) ==
    IF rawValue = <<"a", "\\", "s", "b">> THEN <<"a", " ", "b">> ELSE rawValue

\* C23: of a line made of one tag, a full prefix, a command and a trailing
\* parameter, parse returns exactly the tag (raw and unescaped), the three
\* parts of the prefix, the command and the one parameter; and fromJSON of
\* toJSON of a parsed message has its command, prefix, tags and params.
C23_RoundTrip ==
    /\ ret.of = "parse" =>
        \A w \in FullInputs :
            call.arg = FullLineOf(w) =>
                /\ ret.value.rawTags = (<<"k">> :> w.rawValue)
                /\ ret.value.tags = (<<"k">> :> Unescaped(w.rawValue))
                /\ ret.value.prefix =
                    [nickname |-> <<"n", "i", "c", "k">>, user |-> w.user,
                     host |-> <<"h", "o", "s", "t">>]
                /\ ret.value.command = w.command
                /\ ret.value.params = <<w.trailing>>
    /\ ret.of = "fromJSON" =>
        LET m == parse(call.arg)
        IN  /\ ret.value.command = m.command
            /\ ret.value.prefix = m.prefix
            /\ ret.value.tags = m.tags
            /\ ret.value.params = m.params

\* one left-to-right scan of str from character i on, with the characters
\* written so far in out; pending tells that the character before was a
\* backslash that is not part of an escape read earlier
RECURSIVE Scan(_, _, _, _)
Scan(str, i, pending, out) ==
    IF i > Len(str) THEN (IF pending THEN Append(out, "\\") ELSE out)
    ELSE IF pending
         THEN CASE str[i] = ":" -> Scan(str, i + 1, FALSE, Append(out, ";"))
                [] str[i] = "s" -> Scan(str, i + 1, FALSE, Append(out, " "))
                [] str[i] = "\\" -> Scan(str, i + 1, FALSE, Append(out, "\\"))
                [] str[i] = "r" -> Scan(str, i + 1, FALSE, Append(out, "\r"))
                [] str[i] = "n" -> Scan(str, i + 1, FALSE, Append(out, "\n"))
                [] OTHER -> Scan(str, i + 1, FALSE, out \o <<"\\", str[i]>>)
         ELSE IF str[i] = "\\" THEN Scan(str, i + 1, TRUE, out)
              ELSE Scan(str, i + 1, FALSE, Append(out, str[i]))

\* C24: _unescapeIRC returns what one left-to-right scan writes that replaces
\* the five escapes and copies every other character, the backslash of an
\* unmapped sequence included; a\sb\:c\\d comes back as "a b;c\d".
C24_Unescape ==
    ret.of = "_unescapeIRC" =>
        /\ ret.value = Scan(call.arg, 1, FALSE, <<>>)
        /\ call.arg = ExampleValue => ret.value = <<"a", " ", "b", ";", "c", "\\", "d">>

\* a value with an unmapped sequence ahead of an escape was unescaped
C24_Witness ==
    /\ ret.of = "_unescapeIRC"
    /\ call.arg = <<"\\", "x", "\\", "s">>
    /\ ret.value = <<"\\", "x", " ">>

\* C25: of a command followed by middle parameters and possibly a trailing
\* parameter, parse returns the middle parameters in order and then the whole
\* trailing text without its ':'; "CMD a b :c d e" gives a, b, "c d e", and
\* the command alone gives no parameter.
C25_Params ==
    ret.of = "parse" =>
        \A ms \in MiddleLists, t \in Trailings \cup {UNDEF} :
            call.arg = ParamLine(ms, t) =>
                /\ ret.value.command = CMD
                /\ ret.value.params = ms \o (IF t = UNDEF THEN <<>> ELSE <<t>>)

\* "CMD a b :c d e" was parsed
C25_Witness ==
    /\ ret.of = "parse"
    /\ call.arg = <<"C", "M", "D", " ", "a", " ", "b", " ", ":", "c", " ", "d", " ", "e">>
    /\ ret.value.params = <<<<"a">>, <<"b">>, <<"c", " ", "d", " ", "e">>>>

\* C26: the prefix token nick!user@host gives the three parts, nick!user no
\* host, user@host no nickname, and any other token the host only.
C26_Prefix ==
    ret.of = "parse" =>
        /\ \A n, u, h \in Names :
            /\ call.arg = PrefixLine(n \o <<"!">> \o u \o <<"@">> \o h) =>
                ret.value.prefix = [nickname |-> n, user |-> u, host |-> h]
            /\ call.arg = PrefixLine(n \o <<"!">> \o u) =>
                ret.value.prefix = [nickname |-> n, user |-> u, host |-> UNDEF]
            /\ call.arg = PrefixLine(u \o <<"@">> \o h) =>
                ret.value.prefix = [nickname |-> UNDEF, user |-> u, host |-> h]
            /\ call.arg = PrefixLine(h) =>
                ret.value.prefix =
                    [nickname |-> UNDEF, user |-> UNDEF, host |-> h]
        /\ call.arg \in PrefixLines => ret.value.command = CMD

\* ":host CMD" was parsed into a prefix with the host only
C26_Witness ==
    /\ ret.of = "parse"
    /\ call.arg = <<":", "h", "o", "s", "t", " ", "C", "M", "D">>
    /\ ret.value.prefix =
        [nickname |-> UNDEF, user |-> UNDEF, host |-> <<"h", "o", "s", "t">>]


\* the invocations emit(event, data) owes to the handlers regs
Owed(regs, data) ==
    [i \in 1..Len(regs) |-> [callback |-> regs[i].callback, data |-> data]]

IsPrefix(a, b) == Len(a) <= Len(b) /\ SubSeq(b, 1, Len(a)) = a

Persistent(regs) == SelectSeq(regs, LAMBDA r : ~r.once)

OneShot(regs) == SelectSeq(regs, LAMBDA r : r.once)

\* the one-shot subscriptions the handlers regs make to event when they run
Added(event, regs) ==
    IF event # TopicT THEN <<>>
    ELSE [i \in 1..Len(SelectSeq(regs, LAMBDA r : r.callback = "again")) |->
            [callback |-> "h1", once |-> TRUE]]

\* after the step the handlers of event are those that were registered
\* without once, in their order, followed by handlers subscribed in the step
OneShotsRemoved(event) ==
    /\ IsPrefix(Persistent(subscribers[event]), subscribers'[event])
    /\ Len(subscribers'[event]) <=
         Len(Persistent(subscribers[event]))
             + Len(Added(event, subscribers[event]))

\* C27: emit(event, data) invokes the handlers registered for event when it
\* is called, each once, in registration order and with data; afterwards the
\* one-shot handlers among them are gone and the others remain, and the
\* handlers of the other topic were neither invoked nor removed.
C27_Emit ==
    [][\A event \in Topics, data \in Data :
        BusEmit(event, data) /\ event \in DOMAIN subscribers =>
            /\ calls' = calls \o Owed(subscribers[event], data)
            /\ OneShotsRemoved(event)
            /\ \A other \in DOMAIN subscribers \ {event} :
                IsPrefix(subscribers[other], subscribers'[other])]_vars

\* C28: when a handler of event throws, emit(event, data) still invokes the
\* handlers registered after it, and the one-shot handlers are removed.
C28_Isolation ==
    [][\A event \in Topics, data \in Data :
        (/\ BusEmit(event, data)
         /\ event \in DOMAIN subscribers
         /\ \E i \in 1..Len(subscribers[event]) :
                subscribers[event][i].callback = "boom") =>
            /\ \A i \in 1..Len(subscribers[event]) :
                \E j \in (Len(calls) + 1)..Len(calls') :
                    calls'[j] = Owed(subscribers[event], data)[i]
            /\ OneShotsRemoved(event)]_vars

\* C29: in an emit(event, data) in which no handler throws, the one-shot
\* handlers registered for event afterwards are exactly those subscribed
\* during the emit: the ones that ran are gone, so that none runs twice, and
\* the ones that did not run are kept for the next emit.
C29_Once ==
    [][\A event \in Topics, data \in Data :
        (/\ BusEmit(event, data)
         /\ event \in DOMAIN subscribers
         /\ calls' = calls \o Owed(subscribers[event], data)) =>
            OneShot(subscribers'[event]) = Added(event, subscribers[event])]_vars


\* C30 as stated: isChromeConnected is true exactly while a peer is attached.
C30_ConnectedIffAttached == isChromeConnected <=> chromePort # NULL

\* C30: isChromeConnected is true exactly while a peer is attached whose
\* CSYN the manager has handled (it was sent CACK); it is false from the
\* accept of the peer to its CSYN and after its disconnection or eviction.
C30_ConnectedAfterCsyn ==
    isChromeConnected <=>
        /\ chromePort # NULL
        /\ \E i \in 1..Len(inbox[chromePort]) :
               inbox[chromePort][i].command = CACK

\* the second peer, accepted by evicting the first, has sent its CSYN
C30_Witness ==
    /\ isChromeConnected
    /\ chromePort = 2
    /\ portState[1] = "disconnected"
    /\ inbox[2] # <<>> /\ inbox[2][1].command = CACK


\* the keys of the object obj that contain no backslash
Plain(obj) == {k \in DOMAIN obj : ~Includes(k, "\\")}

C33_TircWhileConnected ==
    [][\A p \in Ports :
          /\ ContentHandle(p)
          /\ inbox[p][content[p].handled + 1].command = TIRC
          => content[p].isTwitchConnected]_vars

\* the manager holds no local peer and both of its flags are false
ManagerIdle == chromePort = NULL /\ ~isChromeConnected /\ ~isTwitchConnected

\* a close event of the upstream socket posted TFIN to the client of port p
TfinPosted(p) ==
    /\ portState[p] = "open"
    /\ \E i \in 1..Len(inbox[p]) : inbox[p][i].command = TFIN

\* C39: under fair delivery on the local transport, once the upstream socket
\* closes while a content client is attached, the teardown handshake
\* completes and the manager is eventually idle, unless the manager evicted
\* that client for a new one in the meantime.
C39_TeardownCompletes ==
    \A p \in Ports :
        TfinPosted(p) ~> (ManagerIdle \/ portState[p] = "disconnected")

\* C34: whenever the manager posts a control message a local peer is
\* attached: no handler of an upstream event or of a peer's message calls
\* postChromeMessage while chromePort is null, which would reject its promise.
C34_PostsToAttachedPeer ==
    [][/\ \A s \in Sockets :
            SocketClose(s) =>
                onSocketClose([Cur EXCEPT !.readyState[s] = "CLOSED"]).rejection
                    = NoError
       /\ \A s \in Sockets : \A data \in ServerData(Cur, s) :
            SocketMessage(s, data) =>
                onSocketMessage(serverWrote([Cur EXCEPT !.target = s], s, data),
                                data).rejection = NoError
       /\ \A p \in Ports, message \in PeerMessages :
            PeerMessage(p, message) =>
                onChromeMessage(Cur, message).rejection = NoError]_vars

\* the manager holds a socket that is open
Sendable == socket # NULL /\ readyState[socket] = "OPEN"

\* C35: whenever the manager sends an upstream line the socket it holds is
\* non-null and open: so it is when an end-session request makes it send
\* PART, when a valid redirect makes it send the three login lines, when the
\* login acknowledgment makes it send JOIN and when a probe makes it send
\* PONG.
C35_SendsOnOpenSocket ==
    [][/\ \A p \in Ports : PeerMessage(p, Control(TFIN)) => Sendable
       /\ \A s \in Sockets, accessToken \in BOOLEAN :
            Validate(s, accessToken) /\ Valid(s, accessToken) => Sendable
       /\ \A s \in Sockets :
            SocketMessage(s, GusLine \o CRLF) /\ Subs(GLOBALUSERSTATE) # <<>>
                => Sendable
       /\ \A s \in Sockets : SocketMessage(s, PingLine \o CRLF) => Sendable]_vars

\* C36: the close event of a socket the manager no longer holds, a later
\* start of session having created the socket it holds, leaves the manager's
\* socket reference and isTwitchConnected as they are and posts no TFIN.
C36_StaleCloseIgnored ==
    [][\A s \in Sockets :
          SocketClose(s) /\ socket # NULL /\ socket # s =>
              /\ socket' = socket
              /\ isTwitchConnected' = isTwitchConnected
              /\ inbox' = inbox]_vars

\* C37: the login lines of the bootstrap that the open event of socket s
\* started are sent on s: when the bootstrap of s ends, whatever was
\* interleaved while it was pending, no line is sent on another socket.
C37_AuthLinesOnOwnSocket ==
    [][\A s \in Sockets, accessToken \in BOOLEAN :
          Validate(s, accessToken) =>
              \A other \in Sockets \ {s} : sent'[other] = sent[other]]_vars

\* C38: a bootstrap whose redirect carries exactly the state that this
\* bootstrap generated passes the anti-forgery validation, also when the
\* bootstrap of another socket stored or removed its state in between.
C38_OwnStatePasses ==
    [][\A s \in Sockets :
          Validate(s, TRUE) /\ boot[s].returned = boot[s].state =>
              validate(Cur, s, TRUE).rejection # "SecurityError"]_vars

====
